---- MODULE Spec2Model ----
(***************************************************************************)
(* Model of the calorie and macro tracker: the nutrition resolution and    *)
(* logging pipeline (log_food, save_entry), the nutrition fact cache       *)
(* (get_from_cache, add_to_cache), the daily summary (get_todays_summary,  *)
(* save_todays_summary, get_summary_for_date), remove_last_entry and the   *)
(* history reader (get_meals_for_date).                                    *)
(*                                                                         *)
(* Representation of numbers.  JSON numbers of a reply are integers.  A    *)
(* float computed by the program (multiplier, scaled macros, SUM totals)   *)
(* is represented by the integer 100 * x ("hundredths"), which is exact    *)
(* for every product p * (q / 100.0) of integers p and q.                   *)
(*                                                                         *)
(* Representation of time.  A timestamp is an integer tick; a calendar day *)
(* has one tick for each instant of TimesOfDay, tick 0 of a day being      *)
(* midnight (time.min) and the last tick the last representable instant    *)
(* (time.max).  The order of ticks is the order of the ISO-8601 strings    *)
(* the program stores.                                                     *)
(***************************************************************************)
EXTENDS Integers, Sequences, FiniteSets, TLC

\* ------------------------------------------------------------------ bounds
MaxDay == 1
MaxLog == 3

\* The instants of a day the clock can show: midnight (datetime.time.min),
\* which stands for every instant before the last one, and the last
\* representable instant (datetime.time.max).
TimesOfDay == <<"00:00:00", "23:59:59.999999">>
TicksPerDay == Len(TimesOfDay)

MaxNow == (MaxDay + 1) * TicksPerDay - 1

\* ------------------------------------------------------------ JSON values
Num(n) == [t |-> "num", n |-> n, s |-> ""]
Str(s) == [t |-> "str", n |-> 0, s |-> s]

RequiredKeys == {"food_item", "quantity", "quantity_unit", "calories_per_100g",
                 "protein_per_100g", "carbs_per_100g", "fat_per_100g"}

Obj(food, q, unit, c, p, cb, f) ==
    [food_item |-> food, quantity |-> q, quantity_unit |-> unit,
     calories_per_100g |-> c, protein_per_100g |-> p,
     carbs_per_100g |-> cb, fat_per_100g |-> f]

Without(d, k) == [x \in (DOMAIN d) \ {k} |-> d[x]]

\* ------------------------------------------- replies of the collaborator
\* A reply text is a sequence of tokens: a JSON object, prose that is not
\* JSON, the fence with a language tag (```json) and the bare fence (```).
ObjTok(d) == [k |-> "obj", d |-> d]
TextTok == [k |-> "text"]
FenceJsonTok == [k |-> "fence_json"]
FenceTok == [k |-> "fence"]

\* The worked example of the prompt ("175g of banana cake").
BananaCake == Obj(Str("banana cake"), Num(175), Str("g"),
                  Num(300), Num(4), Num(40), Num(14))
\* Another guess for the same label: quantity 0, a unit that is not grams and
\* a negative estimate.
BananaCake2 == Obj(Str("banana cake"), Num(0), Str("slice"),
                   Num(250), Num(3), Num(35), Num(-10))
\* A quantity that is a JSON string.
BadQuantity == Obj(Str("banana cake"), Str("175"), Str("g"),
                   Num(300), Num(4), Num(40), Num(14))
\* A per-100g estimate that is a JSON string, for a second label.
BadMacro == Obj(Str("rice"), Num(100), Str("g"),
                Str("low"), Num(2), Num(28), Num(0))

Drafts == {BananaCake, BananaCake2, BadQuantity, BadMacro}
    \cup {Without(BananaCake, k) : k \in RequiredKeys}
    \cup {Without(BadMacro, "fat_per_100g")}

Replied(text) == [raised |-> FALSE, text |-> text]
Unreachable == [raised |-> TRUE, text |-> <<>>]

Replies ==
    {Replied(<<ObjTok(d)>>) : d \in Drafts}
    \cup {Replied(<<FenceJsonTok, ObjTok(BananaCake2), FenceTok>>),
          Replied(<<TextTok, FenceJsonTok, ObjTok(BananaCake), FenceTok, TextTok>>),
          Replied(<<FenceTok, ObjTok(BananaCake2), FenceTok>>),
          Replied(<<FenceJsonTok, TextTok, FenceTok>>),
          Replied(<<TextTok>>),
          Unreachable}

\* Responses typed at the confirmation prompt; Eof is end-of-input.
Eof == "<EOF>"
Confirmations == {"y", "Y", "n", "yes", Eof}

\* ----------------------------------------------------------------- state
\* chain                 the extraction chain is initialised (API key set)
\* cache                 rows of table cache (food_cache.db); the column
\*                       timestamp is written by DEFAULT and never read
\* food_log              rows of table food_log (food_log.db)
\* food_log_seq          the AUTOINCREMENT counter of food_log
\* daily_summary         rows of table daily_summary; its id column is
\*                       never read
\* now                   the wall clock, in ticks
\* pc                    "menu", "confirm" while log_food waits at input(),
\*                       "paging" while a handler is in paginate_output, or
\*                       "terminated" once an exception has left main
\* nutrition_per_100g, calculated_nutrition
\*                       locals of log_food while it waits at the prompt
\* What a handler prints is not kept in the state: it is the value of the
\* operator that models the handler (log_food_try, todays_summary,
\* simple_todays_summary, summary_for_date, removal, meals_for_date).
\* lines, page_i          locals of paginate_output: the lines of its text and
\*                       the index i of its for loop
\* stdout                the pages paginate_output has printed
\* stdin                 the responses paginate_output has read at its prompt
\* pager_pc              "idle", or where paginate_output is: "for" (head of
\*                       the loop), "input" (waiting at the continue prompt),
\*                       "returned"
VARIABLES chain, cache, food_log, food_log_seq, daily_summary, now,
          pc, nutrition_per_100g, calculated_nutrition,
          lines, page_i, stdout, stdin, pager_pc

vars == <<chain, cache, food_log, food_log_seq, daily_summary, now,
          pc, nutrition_per_100g, calculated_nutrition,
          lines, page_i, stdout, stdin, pager_pc>>

Pager == <<lines, page_i, stdout, stdin, pager_pc>>

None == [none |-> TRUE]

\* ----------------------------------------------------------------- cache
ProfileKeys == <<"calories", "protein", "carbs", "fat">>

\* json.dumps of a dict: its key/value pairs in insertion order.
json_dumps(d) == [i \in 1..Len(ProfileKeys) |->
                    [key |-> ProfileKeys[i], val |-> d[ProfileKeys[i]]]]

\* json.loads of such a text: the dict of its pairs.
json_loads(text) ==
    [k \in {text[i].key : i \in DOMAIN text} |->
        (CHOOSE p \in {text[i] : i \in DOMAIN text} : p.key = k).val]

get_from_cache(c, food_item) ==
    LET result == {r \in c : r.food_item = food_item}
    IN IF result # {} THEN json_loads((CHOOSE r \in result : TRUE).nutrition_data)
       ELSE None

\* INSERT OR REPLACE that keeps no other row of the table.
add_to_cache_alone(c, food_item, nutrition_data) ==
    {[food_item |-> food_item, nutrition_data |-> json_dumps(nutrition_data)]}

add_to_cache(c, food_item, nutrition_data) ==
    {r \in c : r.food_item # food_item}
    \cup {[food_item |-> food_item, nutrition_data |-> json_dumps(nutrition_data)]}

\* The result of the lookup taken for a miss, whatever it is.
Falsy(x) == FALSE

\* Python truth value of get_from_cache's result: None and {} are false.
Truthy(x) == x # None /\ DOMAIN x # {}

\* ------------------------------------------------------------- log_food
HasTok(text, k) == \E i \in DOMAIN text : text[i].k = k

FirstTok(text, ks) ==
    IF \E i \in DOMAIN text : text[i].k \in ks
    THEN CHOOSE i \in DOMAIN text :
           text[i].k \in ks /\ \A j \in 1..(i - 1) : text[j].k \notin ks
    ELSE Len(text) + 1

\* text.split(sep)[0]: the part before the first separator.
SplitHead(text, ks) == SubSeq(text, 1, FirstTok(text, ks) - 1)

\* text.split('```json')[1]: the part between the first and the second tag.
SplitSecond(text) ==
    LET rest == SubSeq(text, FirstTok(text, {"fence_json"}) + 1, Len(text))
    IN SplitHead(rest, {"fence_json"})

\* The bare fence is a substring of the tagged one, so split('```') cuts at
\* both.
strip_fence(text) ==
    IF HasTok(text, "fence_json")
    THEN SplitHead(SplitSecond(text), {"fence", "fence_json"})
    ELSE text

\* json.loads(response_str) succeeds on exactly one JSON value.
json_valid(text) == Len(text) = 1 /\ text[1].k = "obj"

\* multiplier = quantity, the division by 100.0 forgotten
multiplier_undivided(quantity) == 100 * quantity.n

\* multiplier = quantity / 100.0, in hundredths
multiplier_of(quantity) == (100 * quantity.n) \div 100

\* nutrition_per_100g[key] * multiplier, in hundredths
scaled(value, multiplier) == value.n * multiplier

IsNumber(v) == v.t = "num"

Failed(c, err) == [outcome |-> "error", err |-> err, cache |-> c]

\* lines 169-179 of log_food, with the cache as left by lines 154-167
calculate(c, data, nutrition, hit) ==
    IF ~IsNumber(data.quantity) THEN Failed(c, "TypeError")
    ELSE IF \E i \in DOMAIN ProfileKeys : ~IsNumber(nutrition[ProfileKeys[i]])
    THEN Failed(c, "TypeError")
    ELSE LET multiplier == multiplier_of(data.quantity)
         IN [outcome |-> "prompt", cache |-> c, hit |-> hit,
             response_data |-> data, err |-> "",
             nutrition_per_100g |-> nutrition,
             calculated_nutrition |->
                [food_item |-> data.food_item.s,
                 quantity |-> data.quantity.n,
                 quantity_unit |-> data.quantity_unit.s,
                 calories |-> scaled(nutrition.calories, multiplier),
                 protein |-> scaled(nutrition.protein, multiplier),
                 carbs |-> scaled(nutrition.carbs, multiplier),
                 fat |-> scaled(nutrition.fat, multiplier)]]

\* resolve storing, on a miss, the estimates scaled to the quantity eaten.
resolve_caching_scaled(c, data) ==
    LET cached_nutrition == get_from_cache(c, data.food_item.s)
    IN IF Truthy(cached_nutrition)
       THEN calculate(c, data, cached_nutrition, TRUE)
       ELSE IF ~({"calories_per_100g", "protein_per_100g", "carbs_per_100g",
                  "fat_per_100g"} \subseteq DOMAIN data)
       THEN Failed(c, "KeyError")
       ELSE LET fresh == [calories |-> data.calories_per_100g,
                          protein |-> data.protein_per_100g,
                          carbs |-> data.carbs_per_100g,
                          fat |-> data.fat_per_100g]
                eaten == [k \in DOMAIN fresh |->
                            IF IsNumber(fresh[k]) /\ IsNumber(data.quantity)
                            THEN Num((fresh[k].n * data.quantity.n) \div 100)
                            ELSE fresh[k]]
            IN calculate(add_to_cache(c, data.food_item.s, eaten), data, fresh, FALSE)

\* resolve with the cache lookup skipped: the draft's estimates always win.
resolve_ignoring_cache(c, data) ==
    LET fresh == [calories |-> data.calories_per_100g,
                  protein |-> data.protein_per_100g,
                  carbs |-> data.carbs_per_100g,
                  fat |-> data.fat_per_100g]
    IN IF ~({"calories_per_100g", "protein_per_100g", "carbs_per_100g",
             "fat_per_100g"} \subseteq DOMAIN data)
       THEN Failed(c, "KeyError")
       ELSE calculate(add_to_cache(c, data.food_item.s, fresh), data, fresh, FALSE)

\* resolve with the store left for after the confirmation: a miss computes
\* from the draft's estimates and writes nothing.
resolve_deferring_store(c, data) ==
    LET cached_nutrition == get_from_cache(c, data.food_item.s)
    IN IF Truthy(cached_nutrition)
       THEN calculate(c, data, cached_nutrition, TRUE)
       ELSE IF ~({"calories_per_100g", "protein_per_100g", "carbs_per_100g",
                  "fat_per_100g"} \subseteq DOMAIN data)
       THEN Failed(c, "KeyError")
       ELSE calculate(c, data, [calories |-> data.calories_per_100g,
                             protein |-> data.protein_per_100g,
                             carbs |-> data.carbs_per_100g,
                             fat |-> data.fat_per_100g], FALSE)

\* lines 154-167 of log_food
resolve(c, data) ==
    LET cached_nutrition == get_from_cache(c, data.food_item.s)
    IN IF Truthy(cached_nutrition)
       THEN calculate(c, data, cached_nutrition, TRUE)
       ELSE IF ~({"calories_per_100g", "protein_per_100g", "carbs_per_100g",
                  "fat_per_100g"} \subseteq DOMAIN data)
       THEN Failed(c, "KeyError")
       ELSE LET fresh == [calories |-> data.calories_per_100g,
                          protein |-> data.protein_per_100g,
                          carbs |-> data.carbs_per_100g,
                          fat |-> data.fat_per_100g]
            IN calculate(add_to_cache(c, data.food_item.s, fresh), data, fresh, FALSE)

\* The try block of log_food up to the confirmation prompt.
log_food_try(c, reply) ==
    IF reply.raised THEN Failed(c, "invoke")
    ELSE LET response_str == strip_fence(reply.text)
         IN IF ~json_valid(response_str) THEN Failed(c, "JSONDecodeError")
            ELSE LET data == response_str[1].d
                 IN IF ~({"food_item", "quantity", "quantity_unit"} \subseteq DOMAIN data)
                    THEN Failed(c, "KeyError")
                    ELSE resolve(c, data)

\* The calls the try block of log_food makes to the extraction chain and to
\* the cache, in the order it makes them.
log_food_calls(c, reply) ==
    LET response_str == strip_fence(reply.text)
    IN <<"chain.invoke">> \o
       (IF reply.raised \/ ~json_valid(response_str) THEN <<>>
        ELSE LET data == response_str[1].d
             IN IF ~({"food_item", "quantity", "quantity_unit"} \subseteq DOMAIN data)
                THEN <<>>
                ELSE <<"get_from_cache">> \o
                     (IF ~Truthy(get_from_cache(c, data.food_item.s))
                         /\ {"calories_per_100g", "protein_per_100g", "carbs_per_100g",
                              "fat_per_100g"} \subseteq DOMAIN data
                      THEN <<"add_to_cache">> ELSE <<>>))

AtMenu == pc = "menu"

Locals == <<nutrition_per_100g, calculated_nutrition>>

log_food(reply) ==
    /\ AtMenu
    /\ IF ~chain
       THEN UNCHANGED <<cache, pc, Locals>>
       ELSE LET r == log_food_try(cache, reply)
            IN /\ cache' = r.cache
               /\ IF r.outcome = "prompt"
                  THEN /\ pc' = "confirm"
                       /\ nutrition_per_100g' = r.nutrition_per_100g
                       /\ calculated_nutrition' = r.calculated_nutrition
                  ELSE UNCHANGED <<pc, Locals>>
    /\ UNCHANGED <<chain, food_log, food_log_seq, daily_summary, now>>
    /\ UNCHANGED Pager

\* str.lower() on the responses of Confirmations
lower(s) == IF s = "Y" THEN "y" ELSE s

save_entry(data) ==
    /\ food_log_seq' = food_log_seq + 1
    /\ food_log' = food_log \cup
          {[id |-> food_log_seq + 1, timestamp |-> now,
            food_item |-> data.food_item, quantity |-> data.quantity,
            quantity_unit |-> data.quantity_unit, calories |-> data.calories,
            protein |-> data.protein, carbs |-> data.carbs, fat |-> data.fat]}

\* Anything but "n" taken as a yes.
confirmation_unless_no(confirm) ==
    IF confirm = "n" THEN "discarded" ELSE "saved"

\* What log_food does with the response typed at the prompt (lines 190-199)
confirmation(confirm) ==
    IF confirm = Eof THEN "error"
    ELSE IF lower(confirm) = "y" THEN "saved"
    ELSE "discarded"

\* log_food from the return of input()
confirm_prompt(confirm) ==
    /\ pc = "confirm"
    /\ IF confirmation(confirm) = "saved"
       THEN /\ food_log_seq < MaxLog
            /\ save_entry(calculated_nutrition)
       ELSE UNCHANGED <<food_log, food_log_seq>>
    /\ pc' = "menu"
    /\ nutrition_per_100g' = None
    /\ calculated_nutrition' = None
    /\ UNCHANGED <<chain, cache, daily_summary, now>>
    /\ UNCHANGED Pager

\* ------------------------------------------------------------ calendar
\* strftime("%Y-%m-%d") / date.isoformat() of the day with index d
DayName == <<"2024-01-01", "2024-01-02", "2024-01-03", "2024-01-04">>
\* the same days written without zero padding, which strptime accepts too
DayNameUnpadded == <<"2024-1-1", "2024-1-2", "2024-1-3", "2024-1-4">>

Days == 0..MaxDay

strftime(d) == DayName[d + 1]

DateInputs == {strftime(d) : d \in Days}
              \cup {DayNameUnpadded[MaxDay + 1], "2024-13-01", "today"}

\* strptime falling back to the first day for a string it cannot parse
strptime_defaulting(date_str) ==
    IF \E d \in Days : date_str \in {DayName[d + 1], DayNameUnpadded[d + 1]}
    THEN CHOOSE d \in Days : date_str \in {DayName[d + 1], DayNameUnpadded[d + 1]}
    ELSE 0

\* datetime.strptime(date_str, "%Y-%m-%d").date(): a day index, or -1 for
\* ValueError
strptime(date_str) ==
    IF \E d \in Days : date_str \in {DayName[d + 1], DayNameUnpadded[d + 1]}
    THEN CHOOSE d \in Days : date_str \in {DayName[d + 1], DayNameUnpadded[d + 1]}
    ELSE -1

day_of(t) == t \div TicksPerDay

\* datetime.now().replace(hour=0, minute=0, second=0, microsecond=0)
today_start_of(t) == day_of(t) * TicksPerDay

\* today_start + datetime.timedelta(days=1)
today_end_of(t) == today_start_of(t) + TicksPerDay

\* datetime.combine(date, datetime.time.min) and (date, datetime.time.max)
time_min_of(d) == d * TicksPerDay
time_max_of(d) == d * TicksPerDay + (TicksPerDay - 1)

\* WHERE timestamp < ?, the lower limit of the range left out
select_range_unbounded(rows, lo, hi) == {r \in rows : r.timestamp < hi}

\* WHERE timestamp >= ? AND timestamp < ?
select_range(rows, lo, hi) == {r \in rows : r.timestamp >= lo /\ r.timestamp < hi}

RECURSIVE sql_sum(_, _)
sql_sum(rows, column) ==
    IF rows = {} THEN 0
    ELSE LET r == CHOOSE x \in rows : TRUE
         IN r[column] + sql_sum(rows \ {r}, column)

\* SELECT SUM(calories), SUM(protein), SUM(carbs), SUM(fat): one row, whose
\* columns are all NULL (None) when no row is in the range.
select_sums(rows) ==
    IF rows = {} THEN None
    ELSE [total_calories |-> sql_sum(rows, "calories"),
          total_protein |-> sql_sum(rows, "protein"),
          total_carbs |-> sql_sum(rows, "carbs"),
          total_fat |-> sql_sum(rows, "fat")]

\* summary and summary[0]: a sum of 0 taken for no sum
has_totals_truthy(summary) == summary # None /\ summary.total_calories # 0

\* summary and summary[0] is not None
has_totals(summary) == summary # None

\* ------------------------------------------------------------ pagination
MaxLines == 25

\* A text is a sequence of tokens: a newline, or a chunk of characters
\* without newline, told from the others by its number.
Newline == [nl |-> TRUE, id |-> 0]
Chunk(n) == [nl |-> FALSE, id |-> n]

\* The text of n non-empty lines, with or without a newline at its end.
TextOf(n, trailing) ==
    [k \in 1..(IF n = 0 THEN 0 ELSE 2 * n - 1) |->
        IF k % 2 = 1 THEN Chunk((k + 1) \div 2) ELSE Newline]
    \o (IF trailing THEN <<Newline>> ELSE <<>>)

Texts == {TextOf(n, trailing) : n \in 0..(MaxLines - 1), trailing \in BOOLEAN}

\* text.split("\n"): one more line than the text has newlines
RECURSIVE split(_)
split(text) ==
    IF \A k \in DOMAIN text : ~text[k].nl THEN <<text>>
    ELSE LET first == CHOOSE k \in DOMAIN text :
                         text[k].nl /\ \A j \in 1..(k - 1) : ~text[j].nl
         IN <<SubSeq(text, 1, first - 1)>> \o split(SubSeq(text, first + 1, Len(text)))

page_length == 10

\* lines[i:i + page_length]
page_of(ls, start) ==
    SubSeq(ls, start + 1, IF start + page_length < Len(ls) THEN start + page_length ELSE Len(ls))

\* i + page_length <= len(lines): a prompt after a full last page too
more_lines_or_full_page(ls, start) == start + page_length <= Len(ls)

\* i + page_length < len(lines)
more_lines(ls, start) == start + page_length < Len(ls)

Store == <<chain, cache, food_log, food_log_seq, daily_summary, now,
           pc, nutrition_per_100g, calculated_nutrition>>

\* One iteration of the loop up to the prompt: the page is printed, and the
\* prompt is shown if more lines remain.
print_page ==
    /\ pager_pc = "for"
    /\ page_i < Len(lines)
    /\ stdout' = Append(stdout, page_of(lines, page_i))
    /\ IF more_lines(lines, page_i)
       THEN pager_pc' = "input" /\ UNCHANGED page_i
       ELSE pager_pc' = "for" /\ page_i' = page_i + page_length
    /\ UNCHANGED <<lines, stdin, Store>>

\* Lines typed at the continue prompt; Eof is end-of-input.
Answers == {"", "n", Eof}

\* input("Press Enter to continue...") returns or raises EOFError
continue_prompt(answer) ==
    /\ pager_pc = "input"
    /\ stdin' = Append(stdin, answer)
    /\ IF answer = Eof
       THEN pager_pc' = "returned" /\ UNCHANGED page_i
       ELSE pager_pc' = "for" /\ page_i' = page_i + page_length
    /\ UNCHANGED <<lines, stdout, Store>>

\* range(0, len(lines), page_length) exhausted
paginate_return ==
    /\ pager_pc = "for"
    /\ page_i >= Len(lines)
    /\ pager_pc' = "returned"
    /\ UNCHANGED <<lines, page_i, stdout, stdin, Store>>

\* paginate_output(text) called by a handler of the menu: the handler goes
\* on when paginate_output has returned.
paginate_output(text) ==
    /\ pc' = "paging"
    /\ lines' = split(text)
    /\ page_i' = 0
    /\ stdout' = <<>>
    /\ stdin' = <<>>
    /\ pager_pc' = "for"

\* paginate_output has returned and so does the handler that called it, which
\* has nothing left to do: the menu loop reads the next choice.
return_to_menu ==
    /\ pc = "paging"
    /\ pager_pc = "returned"
    /\ pc' = "menu"
    /\ lines' = <<>>
    /\ page_i' = 0
    /\ stdout' = <<>>
    /\ stdin' = <<>>
    /\ pager_pc' = "idle"
    /\ UNCHANGED <<chain, cache, food_log, food_log_seq, daily_summary, now, Locals>>

\* --------------------------------------------------------- daily summary
\* The table emptied before today's row is inserted.
save_todays_summary_alone(ds, summary_data, t) ==
    {[date |-> strftime(day_of(t)),
      total_calories |-> summary_data.total_calories,
      total_protein |-> summary_data.total_protein,
      total_carbs |-> summary_data.total_carbs,
      total_fat |-> summary_data.total_fat]}

\* INSERT OR REPLACE INTO daily_summary, keyed by the day of the clock read
\* in save_todays_summary (t)
save_todays_summary(ds, summary_data, t) ==
    LET today_date == strftime(day_of(t))
    IN {r \in ds : r.date # today_date}
       \cup {[date |-> today_date,
               total_calories |-> summary_data.total_calories,
               total_protein |-> summary_data.total_protein,
               total_carbs |-> summary_data.total_carbs,
               total_fat |-> summary_data.total_fat]}

\* get_todays_summary with the clock read t1 at line 293 and t2 at line 232:
\* the table it leaves and what it prints.
todays_summary(log, ds, t1, t2) ==
    LET summary == select_sums(select_range(log, today_start_of(t1), today_end_of(t1)))
    IN IF has_totals(summary)
       THEN [daily_summary |-> save_todays_summary(ds, summary, t2),
             kind |-> "totals", summary |-> summary]
       ELSE [daily_summary |-> ds, kind |-> "no_entries", summary |-> None]

\* The clock reads of one handler: each read may see the clock further on.
ClockSteps == 0..1

get_todays_summary(d) ==
    /\ AtMenu
    /\ now + d <= MaxNow
    /\ LET r == todays_summary(food_log, daily_summary, now, now + d)
       IN daily_summary' = r.daily_summary
    /\ now' = now + d
    /\ UNCHANGED <<chain, cache, food_log, food_log_seq, pc, Locals>>
    /\ UNCHANGED Pager

\* get_todays_summary of the simple entry point (src/main.py) with the clock
\* read t: what it prints; it writes nothing.
simple_todays_summary(log, t) ==
    LET summary == select_sums(select_range(log, today_start_of(t), today_end_of(t)))
    IN IF has_totals(summary)
       THEN [kind |-> "totals", summary |-> summary]
       ELSE [kind |-> "no_entries", summary |-> None]

simple_get_todays_summary ==
    /\ AtMenu
    /\ simple_todays_summary(food_log, now).kind \in {"totals", "no_entries"}
    /\ UNCHANGED <<chain, cache, food_log, food_log_seq, daily_summary, now, pc, Locals>>
    /\ UNCHANGED Pager

\* get_summary_for_date: what it prints
summary_for_date(ds, date_str) ==
    LET date == strptime(date_str)
    IN IF date = -1
       THEN [kind |-> "invalid_date"]
       ELSE LET summary == {r \in ds : r.date = strftime(date)}
            IN IF summary # {}
               THEN [kind |-> "summary", date |-> strftime(date),
                     summary |-> CHOOSE r \in summary : TRUE]
               ELSE [kind |-> "no_summary", date |-> strftime(date)]

\* output of get_summary_for_date: the title and the four totals, the last
\* line without a newline at its end
summary_output(report) == TextOf(5, FALSE)

get_summary_for_date(date_str) ==
    /\ AtMenu
    /\ LET report == summary_for_date(daily_summary, date_str)
       IN IF report.kind = "summary"
          THEN paginate_output(summary_output(report))
          ELSE UNCHANGED <<pc, Pager>>
    /\ UNCHANGED <<chain, cache, food_log, food_log_seq, daily_summary, now, Locals>>

\* ------------------------------------------------------------- removal
\* ORDER BY id ASC LIMIT 1
first_by_id(rows) == CHOOSE r \in rows : \A x \in rows : r.id <= x.id

\* ORDER BY id DESC LIMIT 1
last_by_id(rows) == CHOOSE r \in rows : \A x \in rows : x.id <= r.id

\* remove_last_entry with the clock read t0 at line 331, and t1, t2 in the
\* get_todays_summary it calls: the tables it leaves and what it prints.
removal(log, ds, t0, t1, t2) ==
    LET todays == select_range(log, today_start_of(t0), today_end_of(t0))
    IN IF todays # {}
       THEN LET last_entry == last_by_id(todays)
                left == {r \in log : r.id # last_entry.id}
                r == todays_summary(left, ds, t1, t2)
            IN [kind |-> "removed", entry |-> last_entry, food_log |-> left,
                daily_summary |-> r.daily_summary, summary_kind |-> r.kind]
       ELSE [kind |-> "nothing_to_remove", entry |-> None, food_log |-> log,
             daily_summary |-> ds, summary_kind |-> "none"]

remove_last_entry(d1, d2) ==
    /\ AtMenu
    /\ now + d1 + d2 <= MaxNow
    /\ LET r == removal(food_log, daily_summary, now, now + d1, now + d1 + d2)
       IN /\ r.kind = "nothing_to_remove" => d1 = 0 /\ d2 = 0
          /\ food_log' = r.food_log
          /\ daily_summary' = r.daily_summary
          /\ now' = IF r.kind = "removed" THEN now + d1 + d2 ELSE now
    /\ UNCHANGED <<chain, cache, food_log_seq, pc, Locals>>
    /\ UNCHANGED Pager

\* ------------------------------------------------------------- history
RECURSIVE order_by_timestamp(_)
order_by_timestamp(rows) ==
    IF rows = {} THEN <<>>
    ELSE LET first == CHOOSE r \in rows :
                        \A x \in rows : r.timestamp < x.timestamp
                            \/ (r.timestamp = x.timestamp /\ r.id <= x.id)
         IN <<first>> \o order_by_timestamp(rows \ {first})

\* get_meals_for_date: what it prints
meals_for_date(log, date_str) ==
    LET date == strptime(date_str)
    IN IF date = -1
       THEN [kind |-> "invalid_date"]
       ELSE LET meals == order_by_timestamp(
                            select_range(log, time_min_of(date), time_max_of(date)))
            IN IF meals # <<>>
               THEN [kind |-> "meals", date |-> strftime(date), meals |-> meals]
               ELSE [kind |-> "no_meals", date |-> strftime(date)]

\* output of get_meals_for_date: the title line, then for each meal an empty
\* line and three lines, each ended by a newline
RECURSIVE meal_lines(_, _)
meal_lines(meals, k) ==
    IF k > Len(meals) THEN <<>>
    ELSE <<Newline, Chunk(3 * k - 2), Newline, Chunk(3 * k - 1), Newline,
           Chunk(3 * k), Newline>> \o meal_lines(meals, k + 1)

meals_output(meals) == <<Chunk(0), Newline>> \o meal_lines(meals, 1)

get_meals_for_date(date_str) ==
    /\ AtMenu
    /\ LET report == meals_for_date(food_log, date_str)
       IN IF report.kind = "meals"
          THEN paginate_output(meals_output(report.meals))
          ELSE UNCHANGED <<pc, Pager>>
    /\ UNCHANGED <<chain, cache, food_log, food_log_seq, daily_summary, now, Locals>>

\* ------------------------------------------------------ storage failure
\* The operations of the interactive menu that open the store; "save_entry"
\* is log_food from the affirmative response on.
StoreOps == {"log_food", "save_entry", "get_todays_summary",
             "get_summary_for_date", "get_meals_for_date"}

\* The handler op when the store raises sqlite3.OperationalError at the
\* handler's first access to it.  log_food catches it (except Exception, line
\* 198) and returns to the menu; the other handlers and the menu loop have no
\* handler, so the exception leaves main and the process ends.
storage_failure(op) ==
    /\ CASE op = "log_food" ->
              /\ AtMenu /\ chain
              /\ UNCHANGED <<pc, Locals>>
          [] op = "save_entry" ->
              /\ pc = "confirm"
              /\ pc' = "menu"
              /\ nutrition_per_100g' = None
              /\ calculated_nutrition' = None
          [] OTHER ->
              /\ AtMenu
              /\ pc' = "terminated"
              /\ UNCHANGED Locals
    /\ UNCHANGED <<chain, cache, food_log, food_log_seq, daily_summary, now>>
    /\ UNCHANGED Pager

\* ---------------------------------------------------------------- clock
Tick ==
    /\ now < MaxNow
    /\ now' = now + 1
    /\ UNCHANGED <<chain, cache, food_log, food_log_seq, daily_summary,
                   pc, Locals>>
    /\ UNCHANGED Pager

\* -------------------------------------------------------- specification
\* The tables as init_db and init_cache_db create them.
InitStore ==
    /\ chain \in BOOLEAN
    /\ cache = {}
    /\ food_log = {}
    /\ food_log_seq = 0
    /\ daily_summary = {}
    /\ now = 0
    /\ pc = "menu"
    /\ nutrition_per_100g = None
    /\ calculated_nutrition = None

\* paginate_output not running
PagerIdle ==
    /\ lines = <<>>
    /\ page_i = 0
    /\ stdout = <<>>
    /\ stdin = <<>>
    /\ pager_pc = "idle"

Init == InitStore /\ PagerIdle

Next ==
    \/ \E reply \in Replies : log_food(reply)
    \/ \E confirm \in Confirmations : confirm_prompt(confirm)
    \/ \E d \in ClockSteps : get_todays_summary(d)
    \/ simple_get_todays_summary
    \/ \E date_str \in DateInputs : get_summary_for_date(date_str)
    \/ \E d1 \in ClockSteps, d2 \in ClockSteps : remove_last_entry(d1, d2)
    \/ \E date_str \in DateInputs : get_meals_for_date(date_str)
    \/ print_page
    \/ \E answer \in Answers : continue_prompt(answer)
    \/ paginate_return
    \/ return_to_menu
    \/ \E op \in StoreOps : storage_failure(op)
    \/ Tick

Spec == Init /\ [][Next]_vars

\* The behaviours in which the clock does not move while a handler runs (all
\* the clock reads of one handler see the same instant).
NextSameInstant ==
    \/ \E reply \in Replies : log_food(reply)
    \/ \E confirm \in Confirmations : confirm_prompt(confirm)
    \/ get_todays_summary(0)
    \/ simple_get_todays_summary
    \/ \E date_str \in DateInputs : get_summary_for_date(date_str)
    \/ remove_last_entry(0, 0)
    \/ \E date_str \in DateInputs : get_meals_for_date(date_str)
    \/ print_page
    \/ \E answer \in Answers : continue_prompt(answer)
    \/ paginate_return
    \/ return_to_menu
    \/ \E op \in StoreOps : storage_failure(op)
    \/ Tick

SpecSameInstant == Init /\ [][NextSameInstant]_vars

\* ------------------------------------------- pagination of any text
\* paginate_output(text) called, up to the head of its loop
InitPaginate ==
    /\ InitStore
    /\ \E text \in Texts : lines = split(text)
    /\ page_i = 0
    /\ stdout = <<>>
    /\ stdin = <<>>
    /\ pager_pc = "for"

NextPaginate ==
    \/ print_page
    \/ \E answer \in Answers : continue_prompt(answer)
    \/ paginate_return

\* Every step of paginate_output is eventually taken: the interpreter runs
\* and a read at the prompt ends, with a line or with end-of-input.
SpecPaginate == InitPaginate /\ [][NextPaginate]_vars /\ WF_vars(NextPaginate)

\* ================================================================ claims
Labels == {"banana cake", "rice"}

Profile(c, p, cb, f) ==
    [calories |-> Num(c), protein |-> Num(p), carbs |-> Num(cb), fat |-> Num(f)]

Macros == {"calories", "protein", "carbs", "fat"}

\* The draft of a reply that is one JSON object, unfenced.
Plain(d) == Replied(<<ObjTok(d)>>)

\* A log_food step that ends at the confirmation prompt.
ReachesPrompt == pc = "menu" /\ pc' = "confirm"

\* C1 (idempotent cache fill): a resolution for a label that an earlier
\* resolution has cached uses exactly the cached profile, whatever per-100g
\* values its own draft carries.
C1_IdempotentCacheFill ==
    [][\A label \in Labels :
         (/\ ReachesPrompt
          /\ get_from_cache(cache, label) # None
          /\ calculated_nutrition'.food_item = label)
         => /\ nutrition_per_100g' = get_from_cache(cache, label)
            /\ get_from_cache(cache', label) = get_from_cache(cache, label)]_vars

\* The draft says 250/3/35/-10 per 100 g for a label cached as 300/4/40/14.
C1_Witness ==
    /\ pc = "confirm"
    /\ calculated_nutrition.quantity_unit = "slice"
    /\ nutrition_per_100g = Profile(300, 4, 40, 14)
    /\ get_from_cache(cache, "banana cake") = Profile(300, 4, 40, 14)

\* C2 (scaling correctness): with p the profile a resolution uses (the one
\* the cache holds for the label once the resolution has run) and q the
\* draft's quantity, the computed entry has each macro equal to p * q / 100
\* (p * q in hundredths) and carries the draft's quantity and unit as they are.
C2_ScalingCorrectness ==
    /\ \A d \in Drafts :
         LET r == log_food_try(cache, Plain(d))
         IN r.outcome = "prompt" =>
              LET p == get_from_cache(r.cache, d.food_item.s)
                  e == r.calculated_nutrition
              IN /\ \A m \in Macros : e[m] = p[m].n * d.quantity.n
                 /\ e.quantity = d.quantity.n
                 /\ e.quantity_unit = d.quantity_unit.s
                 /\ e.food_item = d.food_item.s
    /\ pc = "confirm" =>
         \A m \in Macros :
            calculated_nutrition[m] =
               get_from_cache(cache, calculated_nutrition.food_item)[m].n
                  * calculated_nutrition.quantity

\* 175 g against the cached 250/3/35/-10: fat is -17.5.
C2_Witness ==
    /\ pc = "confirm"
    /\ calculated_nutrition.quantity = 175
    /\ nutrition_per_100g = Profile(250, 3, 35, -10)
    /\ calculated_nutrition.fat = -1750
    /\ calculated_nutrition.calories = 43750

Affirmative == {"y", "Y"}

\* C3 (confirmation gate): at the prompt, a response that is not the
\* affirmative one leaves food_log as it is, and the affirmative one adds
\* exactly one row, whose fields are those of the entry presented.
C3_ConfirmationGate ==
    [][\A confirm \in Confirmations :
         confirm_prompt(confirm) =>
            IF confirm \in Affirmative
            THEN \E row \in food_log' :
                    /\ row \notin food_log
                    /\ food_log' = food_log \cup {row}
                    /\ row.food_item = calculated_nutrition.food_item
                    /\ row.quantity = calculated_nutrition.quantity
                    /\ row.quantity_unit = calculated_nutrition.quantity_unit
                    /\ \A m \in Macros : row[m] = calculated_nutrition[m]
            ELSE food_log' = food_log]_vars

\* An entry was presented and accepted: the log holds its row.
C3_Witness ==
    /\ pc = "menu"
    /\ \E row \in food_log :
          /\ row.id = food_log_seq
          /\ row.quantity = 175
          /\ row.calories = 52500

\* The log entries of the calendar day of instant t.
TodaysEntries(log, t) == {row \in log : day_of(row.timestamp) = day_of(t)}

SumsOf(rows) ==
    [total_calories |-> sql_sum(rows, "calories"),
     total_protein |-> sql_sum(rows, "protein"),
     total_carbs |-> sql_sum(rows, "carbs"),
     total_fat |-> sql_sum(rows, "fat")]

TotalsOf(row) ==
    [total_calories |-> row.total_calories, total_protein |-> row.total_protein,
     total_carbs |-> row.total_carbs, total_fat |-> row.total_fat]

\* C4 (summary consistency): in every reachable state, today's summary
\* requested and the persisted summary for today read right after it (the
\* clock not moving in between) gives totals equal to the sums over today's
\* log entries; no row at all is accepted for a day without entries.
C4_SummaryConsistency ==
    AtMenu =>
       LET requested == todays_summary(food_log, daily_summary, now, now)
           read == summary_for_date(requested.daily_summary, strftime(day_of(now)))
           todays == TodaysEntries(food_log, now)
       IN \/ todays = {} /\ read.kind = "no_summary"
          \/ read.kind = "summary" /\ TotalsOf(read.summary) = SumsOf(todays)

\* C5 (removal round-trip): when the entry e appended last is of today,
\* remove_last_entry removes it, so that the meals of today no longer show
\* it; if today had no other entry, a second remove_last_entry later the same
\* day reports that there is nothing to remove and leaves food_log as it is.
C5_RemovalRoundTrip ==
    AtMenu =>
       \A e \in food_log :
          (e.id = food_log_seq /\ day_of(e.timestamp) = day_of(now)) =>
             \A d1 \in ClockSteps, d2 \in ClockSteps :
                LET first == removal(food_log, daily_summary, now, now + d1, now + d1 + d2)
                    shown == meals_for_date(first.food_log, strftime(day_of(now)))
                IN /\ first.kind = "removed"
                   /\ e \notin first.food_log
                   /\ shown.kind = "meals" =>
                         \A i \in DOMAIN shown.meals : shown.meals[i].id # e.id
                   /\ TodaysEntries(food_log, now) = {e} =>
                         \A t \in now..MaxNow :
                            day_of(t) = day_of(now) =>
                               LET second == removal(first.food_log, first.daily_summary, t, t, t)
                               IN /\ second.kind = "nothing_to_remove"
                                  /\ second.food_log = first.food_log

\* One entry was appended and removed again, and the entry appended after it
\* is the only one of today.
C5_Witness ==
    /\ AtMenu
    /\ food_log_seq = 2
    /\ \E e \in food_log :
          /\ e.id = 2
          /\ food_log = {e}
          /\ day_of(e.timestamp) = day_of(now)

\* C6 (empty-day distinction): the sum aggregation over today's range
\* reports "no entries" exactly when no log entry has its timestamp in the
\* range, and otherwise the tuple of sums, also when every sum is 0.
C6_EmptyDayDistinction ==
    AtMenu =>
       LET todays == TodaysEntries(food_log, now)
           full == todays_summary(food_log, daily_summary, now, now)
           simple == simple_todays_summary(food_log, now)
       IN /\ full.kind = "no_entries" <=> todays = {}
          /\ simple.kind = "no_entries" <=> todays = {}
          /\ todays # {} =>
                /\ full.kind = "totals" /\ full.summary = SumsOf(todays)
                /\ simple.kind = "totals" /\ simple.summary = SumsOf(todays)

\* Today has an entry, every macro of today's entries is 0, and the summary
\* requested for it has been persisted as a tuple of zeros.
C6_Witness ==
    /\ AtMenu
    /\ TodaysEntries(food_log, now) # {}
    /\ \A row \in TodaysEntries(food_log, now) : \A m \in Macros : row[m] = 0
    /\ \E row \in daily_summary :
          /\ row.date = strftime(day_of(now))
          /\ TotalsOf(row) = [total_calories |-> 0, total_protein |-> 0,
                              total_carbs |-> 0, total_fat |-> 0]

\* The per-100g estimates of a draft that has them all.
EstimatesOf(d) ==
    [calories |-> d.calories_per_100g, protein |-> d.protein_per_100g,
     carbs |-> d.carbs_per_100g, fat |-> d.fat_per_100g]

\* C7 (cache miss, then confirmation): a resolution for a label the cache
\* does not hold leaves in the cache, for that label, exactly the draft's
\* unscaled per-100g values and presents those values times quantity / 100;
\* the row stored on confirmation holds the presented values, that is the
\* cached profile times quantity / 100.  Quantity 175 with 300/4/40/14 per
\* 100 g gives the row 525.0/7.0/70.0/24.5 and the cache entry 300/4/40/14.
C7_CacheMissThenConfirm ==
    [][/\ \A d \in Drafts :
            (/\ chain
             /\ RequiredKeys \subseteq DOMAIN d
             /\ get_from_cache(cache, d.food_item.s) = None
             /\ log_food(Plain(d)))
            => /\ get_from_cache(cache', d.food_item.s) = EstimatesOf(d)
               /\ ReachesPrompt =>
                     /\ nutrition_per_100g' = EstimatesOf(d)
                     /\ \A m \in Macros :
                           calculated_nutrition'[m] = EstimatesOf(d)[m].n * d.quantity.n
       /\ (pc = "confirm" /\ food_log' # food_log) =>
             \E row \in food_log' \ food_log :
                LET cached == get_from_cache(cache', row.food_item)
                IN /\ \A m \in Macros : row[m] = cached[m].n * row.quantity
                   /\ (row.quantity = 175 /\ cached = Profile(300, 4, 40, 14)) =>
                         /\ row.calories = 52500 /\ row.protein = 700
                         /\ row.carbs = 7000 /\ row.fat = 2450]_vars

\* The worked example, logged and confirmed on a cache miss.
C7_Witness ==
    /\ get_from_cache(cache, "banana cake") = Profile(300, 4, 40, 14)
    /\ \E row \in food_log :
          /\ row.food_item = "banana cake" /\ row.quantity = 175
          /\ row.calories = 52500 /\ row.protein = 700
          /\ row.carbs = 7000 /\ row.fat = 2450

\* C8 (a failed resolution changes nothing): a log_food invocation that
\* ends in the error outcome leaves the cache table and the food_log table
\* as they were.
C8_FailedResolutionChangesNothing ==
    [][\A reply \in Replies :
         (/\ chain
          /\ log_food(reply)
          /\ log_food_try(cache, reply).outcome = "error")
         => cache' = cache /\ food_log' = food_log]_vars

\* C9 (a missing required key is an extraction failure): a reply that
\* lacks one of the seven required keys never takes log_food to the
\* confirmation prompt, cached label or not.
C9_MissingKeyIsFailure ==
    [][\A d \in Drafts :
         (/\ chain
          /\ ~(RequiredKeys \subseteq DOMAIN d)
          /\ log_food(Plain(d)))
         => pc' = "menu" /\ food_log' = food_log]_vars

\* C10 (non-negative profiles): every profile the cache holds has
\* calories, protein, carbs and fat that are numbers >= 0.
C10_NonNegativeProfiles ==
    \A row \in cache :
       \A m \in Macros :
          LET value == json_loads(row.nutrition_data)[m]
          IN value.t = "num" /\ value.n >= 0

\* C11 (rejected confirmation): a response at the prompt other than the
\* affirmative one leaves food_log and daily_summary as they are and keeps
\* the cache as the resolution left it, the presented profile included: the
\* next resolution for that label reaching the prompt is a cache hit that
\* uses the rejected draft's profile, and no resolution replaces it.
C11_RejectedConfirmationKeepsCache ==
    [][\A confirm \in Confirmations :
         (confirm_prompt(confirm) /\ confirm \notin Affirmative)
         => /\ food_log' = food_log
            /\ daily_summary' = daily_summary
            /\ cache' = cache
            /\ get_from_cache(cache', calculated_nutrition.food_item) = nutrition_per_100g
            /\ \A d \in Drafts :
                  ({"food_item", "quantity", "quantity_unit"} \subseteq DOMAIN d
                   /\ d.food_item.s = calculated_nutrition.food_item)
                  => LET next == log_food_try(cache', Plain(d))
                     IN /\ next.cache = cache'
                        /\ next.outcome = "prompt" =>
                              /\ next.hit
                              /\ next.nutrition_per_100g = nutrition_per_100g]_vars

\* Nothing was ever saved, the guess 250/3/35/-10 was presented and turned
\* down, and the next entry for the label is computed from it.
C11_Witness ==
    /\ pc = "confirm"
    /\ food_log_seq = 0
    /\ food_log = {}
    /\ calculated_nutrition.quantity = 175
    /\ nutrition_per_100g = Profile(250, 3, 35, -10)

\* C12 (a cache hit avoids the extraction call): a log_food invocation for
\* a label the cache already holds makes no call to the extraction chain.
C12_CacheHitAvoidsExtraction ==
    [][\A reply \in Replies :
         (/\ chain
          /\ log_food(reply)
          /\ ReachesPrompt
          /\ get_from_cache(cache, calculated_nutrition'.food_item) # None)
         => \A i \in DOMAIN log_food_calls(cache, reply) :
               log_food_calls(cache, reply)[i] # "chain.invoke"]_vars

\* The entries whose timestamp lies in [startOfToday, startOfTomorrow) when
\* the clock shows t.
InTodaysWindow(log, t) ==
    {row \in log : /\ row.timestamp >= day_of(t) * TicksPerDay
                    /\ row.timestamp < (day_of(t) + 1) * TicksPerDay}

\* C13 (frame of remove_last_entry): when entries lie in today's window it
\* deletes the one of them with the highest id and no other row, so that
\* entries of other days stay; when none lies in it, it reports that there
\* is nothing to remove and leaves food_log as it is.
C13_RemoveLastEntryFrame ==
    [][\A d1 \in ClockSteps, d2 \in ClockSteps :
         remove_last_entry(d1, d2) =>
            LET todays == InTodaysWindow(food_log, now)
                report == removal(food_log, daily_summary, now, now + d1, now + d1 + d2)
            IN IF todays = {}
               THEN report.kind = "nothing_to_remove" /\ food_log' = food_log
               ELSE /\ report.kind = "removed"
                    /\ report.entry \in todays
                    /\ \A row \in todays : row.id <= report.entry.id
                    /\ food_log' = food_log \ {report.entry}
                    /\ \A row \in food_log \ todays : row \in food_log']_vars

\* The entry of the first day is kept and the entry of the second day,
\* whose summary (all zeros) was persisted, has been removed.
C13_Witness ==
    /\ AtMenu
    /\ food_log_seq = 2
    /\ day_of(now) = 1
    /\ \E e \in food_log : food_log = {e} /\ e.id = 1 /\ day_of(e.timestamp) = 0
                              /\ e.calories = 52500
    /\ \E row \in daily_summary : row.date = strftime(1) /\ row.total_calories = 0

\* C14 (entries for a date): the meals shown for a date are exactly the log
\* entries whose timestamp lies in the closed interval from the first to the
\* last representable instant of that day, in ascending order of timestamp;
\* with no such entry the report is "no meals".
C14_EntriesForDateClosedInterval ==
    AtMenu =>
       \A d \in Days :
          LET shown == meals_for_date(food_log, strftime(d))
              inside == {row \in food_log :
                           /\ row.timestamp >= d * TicksPerDay
                           /\ row.timestamp <= d * TicksPerDay + (TicksPerDay - 1)}
          IN IF inside = {}
             THEN shown.kind = "no_meals"
             ELSE /\ shown.kind = "meals"
                  /\ {shown.meals[i] : i \in DOMAIN shown.meals} = inside
                  /\ Len(shown.meals) = Cardinality(inside)
                  /\ \A i \in DOMAIN shown.meals, j \in DOMAIN shown.meals :
                        i < j => shown.meals[i].timestamp <= shown.meals[j].timestamp

\* C15 (a storage failure is not a crash): when the store fails during an
\* operation of the interactive menu, the operation writes nothing and the
\* menu loop goes on: the process does not terminate.
C15_StorageFailureNotACrash ==
    [][\A op \in StoreOps :
         storage_failure(op) =>
            /\ pc' = "menu"
            /\ UNCHANGED <<cache, food_log, daily_summary>>]_vars

\* The drafts that carry every required key.
CompleteDrafts == {d \in Drafts : RequiredKeys \subseteq DOMAIN d}

\* A reply that is one JSON object wrapped in a fenced code block, the
\* opening fence with the language tag or without it.
Fenced(d, tagged) ==
    Replied(<<IF tagged THEN FenceJsonTok ELSE FenceTok, ObjTok(d), FenceTok>>)

\* C16 (fenced replies): for a reply that is a valid JSON object with all
\* the required keys wrapped in a fenced code block, with or without a
\* language tag on the fence, the fence is stripped and the draft is parsed:
\* the resolution goes on exactly as for the same object unfenced.
C16_FencedRepliesTolerated ==
    \A d \in CompleteDrafts, tagged \in BOOLEAN :
       /\ json_valid(strip_fence(Fenced(d, tagged).text))
       /\ strip_fence(Fenced(d, tagged).text) = <<ObjTok(d)>>
       /\ log_food_try(cache, Fenced(d, tagged)) = log_food_try(cache, Plain(d))

\* C17 (log/cache agreement): every food_log row has a cache entry for its
\* food_item, and that entry's profile times the row's quantity / 100 is the
\* row's calories, protein, carbs and fat.
C17_LogCacheAgreement ==
    \A row \in food_log :
       LET p == get_from_cache(cache, row.food_item)
       IN /\ p # None
          /\ \A m \in Macros : p[m].t = "num" /\ row[m] = p[m].n * row.quantity

\* Two rows of one label computed from the profile of the first draft, the
\* second from a draft that carried other estimates.
C17_Witness ==
    /\ Cardinality(food_log) = 2
    /\ \E r1 \in food_log, r2 \in food_log :
          /\ r1.food_item = r2.food_item
          /\ r1.quantity_unit = "g" /\ r2.quantity_unit = "slice"
          /\ r1.quantity = 175
    /\ get_from_cache(cache, "banana cake") = Profile(300, 4, 40, 14)

\* C18 (cached profiles are immutable): no step changes or removes a row
\* of the cache, and a step that changes the cache adds one row, for a label
\* the cache did not hold (a store happens only on a miss).
C18_CachedProfilesImmutable ==
    [][/\ \A row \in cache :
            /\ row \in cache'
            /\ get_from_cache(cache', row.food_item) = get_from_cache(cache, row.food_item)
       /\ cache' # cache =>
            \E row \in cache' :
               /\ cache' = cache \cup {row}
               /\ get_from_cache(cache, row.food_item) = None]_vars

\* Both labels are cached, and a row of a draft that carried other
\* estimates (250/3/35/-10) for a cached label (300/4/40/14) was saved.
C18_Witness ==
    /\ get_from_cache(cache, "banana cake") = Profile(300, 4, 40, 14)
    /\ get_from_cache(cache, "rice") # None
    /\ \E row \in food_log : row.quantity_unit = "slice"

\* The daily_summary rows of the day with index d.
SummaryRows(ds, d) == {row \in ds : row.date = strftime(d)}

\* C19 (historical summaries are fixed snapshots): the summary read for a
\* date is absent when the table has no row for it (rows are never deleted,
\* so when none was ever written), and no step creates, changes or deletes
\* the row of a date other than the day the clock shows when the step
\* writes: only the row keyed by the current day is written.
C19_HistoricalSummariesFixed ==
    [][/\ \A d \in Days :
            /\ d # day_of(now') => SummaryRows(daily_summary', d) = SummaryRows(daily_summary, d)
            /\ SummaryRows(daily_summary, d) # {} => SummaryRows(daily_summary', d) # {}
            /\ SummaryRows(daily_summary, d) = {} =>
                  summary_for_date(daily_summary, strftime(d)).kind = "no_summary"
       /\ \A row \in daily_summary' : \E d \in Days : row \in SummaryRows(daily_summary', d)]_vars

\* On the second day: the first day's row, persisted when the day had one
\* entry, and the second day's row, persisted with both days' entries logged.
C19_Witness ==
    /\ day_of(now) = 1
    /\ Cardinality(food_log) = 2
    /\ \E r0 \in daily_summary, r1 \in daily_summary, e0 \in food_log, e1 \in food_log :
          /\ r0.date = strftime(0) /\ r1.date = strftime(1)
          /\ day_of(e0.timestamp) = 0 /\ day_of(e1.timestamp) = 1
          /\ r0.total_calories = e0.calories
          /\ r1.total_calories = e1.calories
          /\ e0.calories # e1.calories

\* Date strings that do not parse as YYYY-MM-DD.
InvalidDates == {"2024-13-01", "today"}

\* C20 (invalid date input): for a date string that does not parse,
\* get_summary_for_date and get_meals_for_date report the error and nothing
\* else: the report is the same whatever the tables hold (no query is
\* executed), and the handlers leave food_log, daily_summary and the cache
\* as they are.
C20_InvalidDateInput ==
    AtMenu =>
       \A date_str \in InvalidDates :
          /\ date_str \in DateInputs
          /\ summary_for_date(daily_summary, date_str) = [kind |-> "invalid_date"]
          /\ meals_for_date(food_log, date_str) = [kind |-> "invalid_date"]
          /\ summary_for_date({}, date_str) = summary_for_date(daily_summary, date_str)
          /\ meals_for_date({}, date_str) = meals_for_date(food_log, date_str)
          /\ ENABLED get_summary_for_date(date_str)
          /\ ENABLED get_meals_for_date(date_str)
          /\ ~ENABLED (/\ get_summary_for_date(date_str)
                       /\ <<food_log, daily_summary, cache>>'
                             # <<food_log, daily_summary, cache>>)
          /\ ~ENABLED (/\ get_meals_for_date(date_str)
                       /\ <<food_log, daily_summary, cache>>'
                             # <<food_log, daily_summary, cache>>)

\* The tables hold an entry and a summary of the second day, shown for the
\* date written without padding, and the unparsable strings are refused.
C20_Witness ==
    /\ AtMenu
    /\ summary_for_date(daily_summary, DayNameUnpadded[MaxDay + 1]).kind = "summary"
    /\ meals_for_date(food_log, DayNameUnpadded[MaxDay + 1]).kind = "meals"
    /\ summary_for_date(daily_summary, "2024-13-01").kind = "invalid_date"
    /\ meals_for_date(food_log, "today").kind = "invalid_date"

\* The lines of a sequence of pages, one after the other.
RECURSIVE Flat(_)
Flat(pages) == IF pages = <<>> THEN <<>> ELSE Head(pages) \o Flat(Tail(pages))

\* The prompts paginate_output has shown: those answered and the one it
\* waits at.
PromptsShown == Len(stdin) + (IF pager_pc = "input" THEN 1 ELSE 0)

\* What paginate_output has done so far is right: the pages printed are the
\* first lines of the text in order, each once, in chunks of page_length
\* (the last one shorter when the lines run out); a prompt was shown after
\* a chunk exactly when lines remained after it; end-of-input at a prompt
\* ends the call with no further chunk; a call that returns without
\* end-of-input has printed every line.
PaginationSafe ==
    pager_pc # "idle" =>
       LET n == Len(lines)
           flat == Flat(stdout)
       IN /\ Len(flat) <= n
          /\ flat = SubSeq(lines, 1, Len(flat))
          /\ \A k \in DOMAIN stdout :
                /\ Len(stdout[k]) >= 1
                /\ Len(stdout[k]) <= 10
                /\ Len(stdout[k]) < 10 => (k = Len(stdout) /\ Len(flat) = n)
          /\ PromptsShown = Cardinality({k \in DOMAIN stdout : 10 * k < n})
          /\ \A k \in DOMAIN stdout : k <= PromptsShown <=> 10 * k < n
          /\ \A k \in DOMAIN stdin :
                stdin[k] = Eof =>
                   /\ k = Len(stdin)
                   /\ pager_pc = "returned"
                   /\ Len(stdout) = k
          /\ (pager_pc = "returned" /\ \A k \in DOMAIN stdin : stdin[k] # Eof)
                => flat = lines

\* C21 (pagination): paginate_output prints the lines of its text in
\* order, each exactly once, in chunks of 10 lines, shows the continue prompt
\* after a chunk if and only if more lines remain, stops without a further
\* chunk when a prompt meets end-of-input, and always returns.
C21_Pagination == []PaginationSafe /\ <>(pager_pc = "returned")

\* 25 lines were printed in three pages, the last of 5 lines, with two
\* prompts answered.
C21_Witness ==
    /\ pager_pc = "returned"
    /\ Len(lines) = 25
    /\ Len(stdout) = 3
    /\ Len(stdout[3]) = 5
    /\ stdin = <<"", "n">>

\* C22 (removal refreshes today's summary): after a remove_last_entry
\* that deleted an entry, the daily_summary row of today, if there is one,
\* holds the sums over the entries that remain for today (zeros when none
\* remains).
C22_RemovalRefreshesSummary ==
    [][\A d1 \in ClockSteps, d2 \in ClockSteps :
         (remove_last_entry(d1, d2) /\ food_log' # food_log)
         => \A row \in daily_summary' :
               row.date = strftime(day_of(now'))
               => TotalsOf(row) = SumsOf(TodaysEntries(food_log', now'))]_vars

\* C23 (summary key and midnight): a today's-summary request that writes
\* leaves a daily_summary row keyed by the calendar day whose window it
\* summed (the day the clock showed at the aggregation query), holding the
\* sums over that day's entries, and writes no row of another day, also when
\* the clock passes midnight before the upsert.
C23_SummaryKeyedBySummedDay ==
    [][\A d \in ClockSteps :
         (/\ get_todays_summary(d)
          /\ todays_summary(food_log, daily_summary, now, now + d).kind = "totals")
         => /\ \E row \in daily_summary' :
                  /\ row.date = strftime(day_of(now))
                  /\ TotalsOf(row) = SumsOf(InTodaysWindow(food_log, now))
            /\ \A other \in Days :
                  other # day_of(now) =>
                     SummaryRows(daily_summary', other) = SummaryRows(daily_summary, other)]_vars

====
